---- MODULE Spec2Model ----
(***************************************************************************)
(* Model of the Blender exporter for COLMAP (src/__init__.py): the two     *)
(* export operators, execute_ and the generator export_dataset that it     *)
(* drives.  Strings are sequences of character codes so that Python's      *)
(* str.startswith, string ordering and pathlib's join are computed and     *)
(* not assumed.  Floating point values are exact fractions <<n, d>>.       *)
(***************************************************************************)
EXTENDS Integers, Sequences, FiniteSets, TLC

\* Largest number of objects in the scene.
MaxObjects == 2

----------------------------------------------------------------------------
\* Strings (sequences of character codes)

\* ".jpg"
JPG == <<46, 106, 112, 103>>
\* "colmap_"
COLMAP_PREFIX == <<99, 111, 108, 109, 97, 112, 95>>
\* "images"
IMAGES == <<105, 109, 97, 103, 101, 115>>
\* "/"
SLASH == <<47>>
\* "."
DOT == <<46>>

\* str.startswith
startswith(s, prefix) ==
    /\ Len(prefix) <= Len(s)
    /\ SubSeq(s, 1, Len(prefix)) = prefix

\* Python's ordering of str: lexicographic by code point, a proper prefix first
RECURSIVE StrLess(_, _)
StrLess(a, b) ==
    IF b = <<>> THEN FALSE
    ELSE IF a = <<>> THEN TRUE
    ELSE IF Head(a) # Head(b) THEN Head(a) < Head(b)
    ELSE StrLess(Tail(a), Tail(b))

----------------------------------------------------------------------------
\* pathlib.PurePosixPath: a path is the sequence of its parts, the root "/"
\* being the first part of an absolute path

\* the components of s between slashes, empty and "." components dropped
RECURSIVE SplitParts(_, _)
SplitParts(s, cur) ==
    LET keep == IF cur = <<>> \/ cur = DOT THEN <<>> ELSE <<cur>>
    IN  IF s = <<>> THEN keep
        ELSE IF <<Head(s)>> = SLASH THEN keep \o SplitParts(Tail(s), <<>>)
        ELSE SplitParts(Tail(s), Append(cur, Head(s)))

\* Path(s).parts
ParseParts(s) ==
    IF s # <<>> /\ <<Head(s)>> = SLASH
    THEN <<SLASH>> \o SplitParts(s, <<>>)
    ELSE SplitParts(s, <<>>)

\* p / s : an absolute right operand replaces the left one
PathJoin(p, s) ==
    LET q == ParseParts(s)
    IN  IF q # <<>> /\ q[1] = SLASH THEN q ELSE p \o q

RECURSIVE JoinParts(_)
JoinParts(parts) ==
    IF parts = <<>> THEN <<>>
    ELSE IF Len(parts) = 1 THEN parts[1]
    ELSE parts[1] \o SLASH \o JoinParts(Tail(parts))

\* str(p)
PathStr(p) ==
    IF p = <<>> THEN DOT
    ELSE IF p[1] = SLASH THEN SLASH \o JoinParts(Tail(p))
    ELSE JoinParts(p)

\* p.parent
PathParent(p) == IF Len(p) <= 1 THEN p ELSE SubSeq(p, 1, Len(p) - 1)

\* p and its ancestors
PathAncestors(p) == { SubSeq(p, 1, k) : k \in 1..Len(p) }

----------------------------------------------------------------------------
\* The scene the host hands to the exporter

\* object names: "A", "B", "A-1", "/A"
ObjectNames == { <<65>>, <<66>>, <<65, 45, 49>>, <<47, 65>> }

\* collection names: "colmap_set1", "colmap_b", "Collection", "colmap"
ColmapSet1 == COLMAP_PREFIX \o <<115, 101, 116, 49>>
ColmapB == COLMAP_PREFIX \o <<98>>
PlainCollection == <<67, 111, 108, 108, 101, 99, 116, 105, 111, 110>>
ShortColmap == <<99, 111, 108, 109, 97, 112>>

\* the values of obj.users_collection
UsersCollections ==
    { <<ColmapSet1>>,
      <<PlainCollection, ColmapSet1, ColmapB>>,
      <<ShortColmap, PlainCollection>> }

ObjectTypes == { "CAMERA", "MESH" }

\* cam.data (lens and sensor in mm), cam.rotation_quaternion as <<w, x, y, z>>
\* and cam.location
CameraData ==
    { [lens |-> 35, sensor_width |-> 36, sensor_height |-> 24,
       rotation_quaternion |-> <<1, 0, 0, 0>>, location |-> <<1, 2, 3>>],
      [lens |-> 50, sensor_width |-> 32, sensor_height |-> 18,
       rotation_quaternion |-> <<0, 0, 1, 0>>, location |-> <<0, -1, 4>>] }

\* the objects of a scene: cameras of every kind, and a mesh that is in a
\* "colmap_" collection
SceneObjects ==
    [type : {"CAMERA"}, name_full : ObjectNames,
     users_collection : UsersCollections, data : CameraData]
    \cup
    [type : ObjectTypes \ {"CAMERA"}, name_full : ObjectNames,
     users_collection : {<<ColmapSet1>>},
     data : { d \in CameraData : d.lens = 35 }]

\* scene.render.resolution_x, resolution_y
Resolutions == { <<800, 600>>, <<1920, 1080>> }

\* Path(self.directory): "/out"
Directory == << SLASH, <<111, 117, 116>> >>

\* the directories that may exist when the operator is invoked
InitialDirs ==
    { { <<SLASH>> },
      { <<SLASH>>, Directory },
      { <<SLASH>>, Directory, PathJoin(Directory, IMAGES) } }

DRY_RUN == FALSE

VARIABLES
    objects,        \* scene.objects, a sequence; an object is its index
    resolution,     \* scene.render.resolution_x, resolution_y
    sceneCamera,    \* bpy.context.scene.camera (0: none)
    dirs,           \* directories of the file system
    files,          \* files saved by save_render
    pc,             \* position in execute_ / export_dataset
    format,         \* execute_'s format argument
    scene_cameras,  \* export_dataset's list of selected cameras
    sortedCams,     \* the sorted list the for loop enumerates
    idx,            \* the loop's idx
    filename,       \* the loop's filename
    cameras,        \* the Camera mapping
    images,         \* the Image mapping
    renders,        \* the active camera at each bpy.ops.render.render()
    saved,          \* the path of each save_render, in order
    progress,       \* the values passed to progress_update, in order
    wmProgress,     \* window_manager progress: "none", "begun", "ended"
    writeCalls,     \* the arguments of each write_model call
    result          \* execute_'s return value

vars == << objects, resolution, sceneCamera, dirs, files, pc, format,
           scene_cameras, sortedCams, idx, filename, cameras, images,
           renders, saved, progress, wmProgress, writeCalls, result >>

----------------------------------------------------------------------------
\* Selection (export_dataset, the loop over scene.objects)

\* the inner loop over obj.users_collection: obj is appended at the first
\* collection whose name starts with "colmap_", and the loop breaks
RECURSIVE MatchLoop(_, _)
MatchLoop(o, colls) ==
    IF colls = <<>> THEN <<>>
    ELSE IF startswith(Head(colls), COLMAP_PREFIX) THEN <<o>>
    ELSE MatchLoop(o, Tail(colls))

\* the inner loop without its break: one append per matching collection
RECURSIVE MatchLoopNoBreak(_, _)
MatchLoopNoBreak(o, colls) ==
    IF colls = <<>> THEN <<>>
    ELSE IF startswith(Head(colls), COLMAP_PREFIX)
         THEN <<o>> \o MatchLoopNoBreak(o, Tail(colls))
    ELSE MatchLoopNoBreak(o, Tail(colls))

\* the outer loop's body without the break
AppendedForNoBreak(o) ==
    IF objects[o].type = "CAMERA"
    THEN MatchLoopNoBreak(o, objects[o].users_collection)
    ELSE <<>>

\* the outer loop's body without the test of obj.type
AppendedForAnyType(o) == MatchLoop(o, objects[o].users_collection)

\* what one iteration of the outer loop appends to scene_cameras
AppendedFor(o) ==
    IF objects[o].type = "CAMERA"
    THEN MatchLoop(o, objects[o].users_collection)
    ELSE <<>>

RECURSIVE SelectFrom(_)
SelectFrom(o) ==
    IF o > Len(objects) THEN <<>> ELSE AppendedFor(o) \o SelectFrom(o + 1)

SelectCameras == SelectFrom(1)

----------------------------------------------------------------------------
\* sorted(scene_cameras, key=lambda x: x.name_full + ".jpg")

\* the sort key without the ".jpg" suffix
SortKeyNoSuffix(o) == objects[o].name_full

SortKey(o) == objects[o].name_full \o JPG

\* o goes before the first element whose key is greater (the sort is stable)
RECURSIVE Insert(_, _)
Insert(s, o) ==
    IF s = <<>> THEN <<o>>
    ELSE IF StrLess(SortKey(o), SortKey(Head(s))) THEN <<o>> \o s
    ELSE <<Head(s)>> \o Insert(Tail(s), o)

RECURSIVE sorted(_)
sorted(s) ==
    IF s = <<>> THEN <<>>
    ELSE Insert(sorted(SubSeq(s, 1, Len(s) - 1)), s[Len(s)])

----------------------------------------------------------------------------
\* Fractions <<n, d>> with d > 0

Frac(n, d) == <<n, d>>
FracLess(a, b) == a[1] * b[2] < b[1] * a[2]
FracEq(a, b) == a[1] * b[2] = b[1] * a[2]

----------------------------------------------------------------------------
\* The records of one loop iteration

\* the parameter vector with fy computed from the sensor width
IntrinsicsSensorWidth(o) ==
    LET width == resolution[1]
        height == resolution[2]
        focal_length == objects[o].data.lens
        sensor_width == objects[o].data.sensor_width
        fx == Frac(focal_length * width, sensor_width)
        fy == Frac(focal_length * height, sensor_width)
    IN  << fx, fy, Frac(width, 2), Frac(height, 2),
           Frac(0, 1), Frac(0, 1), Frac(0, 1), Frac(0, 1) >>

\* params = [fx, fy, width/2, height/2, 0, 0, 0, 0]
Intrinsics(o) ==
    LET width == resolution[1]
        height == resolution[2]
        focal_length == objects[o].data.lens
        sensor_width == objects[o].data.sensor_width
        sensor_height == objects[o].data.sensor_height
        fx == Frac(focal_length * width, sensor_width)
        fy == Frac(focal_length * height, sensor_height)
    IN  << fx, fy, Frac(width, 2), Frac(height, 2),
           Frac(0, 1), Frac(0, 1), Frac(0, 1), Frac(0, 1) >>

MakeCamera(camera_id, o) ==
    [id |-> camera_id, model |-> "OPENCV", width |-> resolution[1],
     height |-> resolution[2], params |-> Intrinsics(o)]

\* cam_rot = Quaternion((orig.x, orig.w, orig.z, -orig.y)), as <<w, x, y, z>>
CamRot(o) ==
    LET q == objects[o].data.rotation_quaternion
    IN  << q[2], q[1], q[4], -q[3] >>

\* Quaternion.to_matrix() of a unit quaternion
ToMatrix(q) ==
    LET w == q[1]  x == q[2]  y == q[3]  z == q[4]
    IN  << << 1 - 2*(y*y + z*z), 2*(x*y - z*w), 2*(x*z + y*w) >>,
           << 2*(x*y + z*w), 1 - 2*(x*x + z*z), 2*(y*z - x*w) >>,
           << 2*(x*z - y*w), 2*(y*z + x*w), 1 - 2*(x*x + y*y) >> >>

\* T1 = -(cam_rot.to_matrix() @ T)
Translation(o) ==
    LET m == ToMatrix(CamRot(o))
        T == objects[o].data.location
    IN  [i \in 1..3 |-> -(m[i][1]*T[1] + m[i][2]*T[2] + m[i][3]*T[3])]

\* the Image record with every image referring to the first camera
MakeImageSharedCamera(image_id, camera_id, o, name) ==
    [id |-> image_id, qvec |-> CamRot(o), tvec |-> Translation(o),
     camera_id |-> 1, name |-> name,
     xys |-> <<>>, point3D_ids |-> <<>>]

MakeImage(image_id, camera_id, o, name) ==
    [id |-> image_id, qvec |-> CamRot(o), tvec |-> Translation(o),
     camera_id |-> camera_id, name |-> name,
     xys |-> <<>>, point3D_ids |-> <<>>]

\* the loop ending one element early
MoreCamerasOffByOne(i, n) == i < n - 1

\* whether enumerate(...) has an element at index i of n
MoreCameras(i, n) == i < n

\* the progress value counted from one and over len(scene_cameras)
ProgressValueFromOne(i, n) == Frac(100 * (i + 1), n)

\* 100.0 * idx / (len(scene_cameras) + 1)
ProgressValue(i, n) == Frac(100 * i, n + 1)

\* format if format in ['.txt', '.bin'] else '.txt'
OutputFormat(fmt) == IF fmt \in {".txt", ".bin"} THEN fmt ELSE ".txt"

output_dir == Directory
images_dir == PathJoin(output_dir, IMAGES)

----------------------------------------------------------------------------
Init ==
    /\ \E n \in 0..MaxObjects :
         objects \in { s \in [1..n -> SceneObjects] :
                         \A i, j \in 1..n :
                            s[i].name_full = s[j].name_full => i = j }
    /\ resolution \in Resolutions
    /\ dirs \in InitialDirs
    /\ sceneCamera = 0
    /\ files = {}
    /\ pc = "idle"
    /\ format = ""
    /\ scene_cameras = <<>>
    /\ sortedCams = <<>>
    /\ idx = 0
    /\ filename = <<>>
    /\ cameras = <<>>
    /\ images = <<>>
    /\ renders = <<>>
    /\ saved = <<>>
    /\ progress = <<>>
    /\ wmProgress = "none"
    /\ writeCalls = <<>>
    /\ result = {}

\* execute_: the directory check and progress_begin
execute_(fmt) ==
    /\ pc = "idle"
    /\ IF Directory \notin dirs
       THEN /\ result' = {"WARNING", "Illegal directory was passed"}
            /\ pc' = "returned"
            /\ UNCHANGED << format, wmProgress >>
       ELSE /\ pc' = "select"
            /\ format' = fmt
            /\ wmProgress' = "begun"
            /\ UNCHANGED result
    /\ UNCHANGED << objects, resolution, sceneCamera, dirs, files,
                    scene_cameras, sortedCams, idx, filename, cameras,
                    images, renders, saved, progress, writeCalls >>

BlenderExporterForColmapBinary == execute_(".bin")

BlenderExporterForColmapText == execute_(".txt")

\* export_dataset up to the for loop: selection, the empty return, mkdir
Select ==
    /\ pc = "select"
    /\ LET sel == SelectCameras
       IN  /\ scene_cameras' = sel
           /\ IF sel = <<>>
              THEN /\ pc' = "exhausted"
                   /\ UNCHANGED << dirs, sortedCams >>
              ELSE /\ dirs' = dirs \cup PathAncestors(output_dir)
                   /\ sortedCams' = sorted(sel)
                   /\ pc' = "build"
    /\ cameras' = <<>>
    /\ images' = <<>>
    /\ idx' = 0
    /\ UNCHANGED << objects, resolution, sceneCamera, files, format,
                    filename, renders, saved, progress, wmProgress,
                    writeCalls, result >>

\* one loop iteration up to the render: the two records, the active camera
BuildRecords ==
    /\ pc = "build"
    /\ LET cam == sortedCams[idx + 1]
           camera_id == idx + 1
           name == objects[cam].name_full \o JPG
           image_id == camera_id
       IN  /\ filename' = name
           /\ cameras' = (camera_id :> MakeCamera(camera_id, cam)) @@ cameras
           /\ images' = (image_id :> MakeImage(image_id, camera_id, cam, name))
                           @@ images
           /\ sceneCamera' = cam
    /\ pc' = IF DRY_RUN THEN "yield" ELSE "render"
    /\ UNCHANGED << objects, resolution, dirs, files, format, scene_cameras,
                    sortedCams, idx, renders, saved, progress, wmProgress,
                    writeCalls, result >>

\* bpy.ops.render.render()
Render ==
    /\ pc = "render"
    /\ renders' = Append(renders, sceneCamera)
    /\ pc' = "save"
    /\ UNCHANGED << objects, resolution, sceneCamera, dirs, files, format,
                    scene_cameras, sortedCams, idx, filename, cameras, images,
                    saved, progress, wmProgress, writeCalls, result >>

\* bpy.ops.render.render() raises
RenderFails ==
    /\ pc = "render"
    /\ pc' = "raised"
    /\ UNCHANGED << objects, resolution, sceneCamera, dirs, files, format,
                    scene_cameras, sortedCams, idx, filename, cameras, images,
                    renders, saved, progress, wmProgress, writeCalls, result >>

\* save_render(str(images_dir / filename)); the renderer makes the parent
\* directory when it is absent
SaveRender ==
    /\ pc = "save"
    /\ LET path == PathJoin(images_dir, filename)
       IN  /\ dirs' = dirs \cup PathAncestors(PathParent(path))
           /\ files' = files \cup {path}
           /\ saved' = Append(saved, path)
    /\ pc' = "yield"
    /\ UNCHANGED << objects, resolution, sceneCamera, format, scene_cameras,
                    sortedCams, idx, filename, cameras, images, renders,
                    progress, wmProgress, writeCalls, result >>

\* save_render raises because the parent directory is absent
SaveRenderFails ==
    /\ pc = "save"
    /\ PathParent(PathJoin(images_dir, filename)) \notin dirs
    /\ pc' = "raised"
    /\ UNCHANGED << objects, resolution, sceneCamera, dirs, files, format,
                    scene_cameras, sortedCams, idx, filename, cameras, images,
                    renders, saved, progress, wmProgress, writeCalls, result >>

\* yield 100.0 * idx / (len(scene_cameras) + 1), taken by progress_update
YieldProgress ==
    /\ pc = "yield"
    /\ progress' = Append(progress, ProgressValue(idx, Len(scene_cameras)))
    /\ idx' = idx + 1
    /\ pc' = IF MoreCameras(idx + 1, Len(sortedCams)) THEN "build" ELSE "write"
    /\ UNCHANGED << objects, resolution, sceneCamera, dirs, files, format,
                    scene_cameras, sortedCams, filename, cameras, images,
                    renders, saved, wmProgress, writeCalls, result >>

\* write_model(cameras, images, {}, str(output_dir), output_format)
WriteModel ==
    /\ pc = "write"
    /\ writeCalls' =
          IF DRY_RUN THEN writeCalls
          ELSE Append(writeCalls,
                      [cameras |-> cameras, images |-> images,
                       points3D |-> <<>>, path |-> PathStr(output_dir),
                       ext |-> OutputFormat(format)])
    /\ pc' = "final"
    /\ UNCHANGED << objects, resolution, sceneCamera, dirs, files, format,
                    scene_cameras, sortedCams, idx, filename, cameras, images,
                    renders, saved, progress, wmProgress, result >>

\* yield 100.0, taken by progress_update
YieldFinal ==
    /\ pc = "final"
    /\ progress' = Append(progress, Frac(100, 1))
    /\ pc' = "exhausted"
    /\ UNCHANGED << objects, resolution, sceneCamera, dirs, files, format,
                    scene_cameras, sortedCams, idx, filename, cameras, images,
                    renders, saved, wmProgress, writeCalls, result >>

\* execute_ after the generator is exhausted: progress_end, {"FINISHED"}
Finish ==
    /\ pc = "exhausted"
    /\ wmProgress' = "ended"
    /\ result' = {"FINISHED"}
    /\ pc' = "returned"
    /\ UNCHANGED << objects, resolution, sceneCamera, dirs, files, format,
                    scene_cameras, sortedCams, idx, filename, cameras, images,
                    renders, saved, progress, writeCalls >>

Next ==
    \/ BlenderExporterForColmapBinary
    \/ BlenderExporterForColmapText
    \/ Select
    \/ BuildRecords
    \/ Render
    \/ RenderFails
    \/ SaveRender
    \/ SaveRenderFails
    \/ YieldProgress
    \/ WriteModel
    \/ YieldFinal
    \/ Finish

Spec == Init /\ [][Next]_vars

----------------------------------------------------------------------------
\* Properties

\* the objects the export is about: cameras with a collection whose name
\* starts with "colmap_"
Selected ==
    { o \in 1..Len(objects) :
        /\ objects[o].type = "CAMERA"
        /\ \E i \in 1..Len(objects[o].users_collection) :
              startswith(objects[o].users_collection[i], COLMAP_PREFIX) }

\* the file name of object o's frame
FrameName(o) == objects[o].name_full \o JPG

\* the position of o among the selected objects, by ascending frame name
Rank(o) ==
    Cardinality({ p \in Selected :
                    p = o \/ StrLess(FrameName(p), FrameName(o)) })

\* the run went through export_dataset to its end
Completed == pc = "returned" /\ result = {"FINISHED"}

\* C1: the mappings handed to write_model have the keys 1..N, N the number
\* of selected cameras, and id k is the camera that is k-th by ascending
\* name_full + ".jpg".
C1_IdDensity ==
    \A c \in 1..Len(writeCalls) :
       LET w == writeCalls[c]
           N == Cardinality(Selected)
       IN  /\ N >= 1
           /\ DOMAIN w.cameras = 1..N
           /\ DOMAIN w.images = 1..N
           /\ \A k \in 1..N :
                 /\ w.cameras[k].id = k
                 /\ w.images[k].id = k
                 /\ \E o \in Selected :
                       /\ w.images[k].name = FrameName(o)
                       /\ Rank(o) = k

\* write_model was called for two cameras whose order by name differs from
\* their order by name + ".jpg"
C1_Witness ==
    /\ Len(writeCalls) = 1
    /\ \E o, p \in Selected :
          /\ StrLess(objects[o].name_full, objects[p].name_full)
          /\ StrLess(FrameName(p), FrameName(o))

\* C2: when no camera is in a "colmap_" collection, no step of the run
\* creates a directory, changes the active camera, renders, saves a file,
\* calls write_model or reports progress.
C2_EmptySelectionNoEffect ==
    [][ Selected = {} =>
          /\ dirs' = dirs
          /\ files' = files
          /\ sceneCamera' = sceneCamera
          /\ renders' = renders
          /\ saved' = saved
          /\ writeCalls' = writeCalls
          /\ progress' = progress ]_vars

\* export_dataset ran to its end on a scene with objects, none selected
C2_Witness ==
    /\ Selected = {}
    /\ Completed
    /\ wmProgress = "ended"
    /\ \E o \in 1..Len(objects) : objects[o].type = "CAMERA"
    /\ \E o \in 1..Len(objects) : objects[o].type = "MESH"

\* C3: when a frame is about to be saved, the output directory and its
\* images/ subdirectory both exist.
C3_Original ==
    pc = "save" => output_dir \in dirs /\ images_dir \in dirs

\* C4: write_model is called at most once, only after every selected camera
\* has been rendered and saved, with all N Camera and Image records and no
\* Point3D; a completed run has called it, a run that raised has not.
C4_WriteOnceAtEnd ==
    LET N == Cardinality(Selected)
    IN  /\ Len(writeCalls) <= 1
        /\ \A c \in 1..Len(writeCalls) :
              /\ Len(renders) = N
              /\ Len(saved) = N
              /\ \A o \in Selected :
                    /\ \E k \in 1..N : renders[k] = o
                    /\ \E k \in 1..N :
                          saved[k] = PathJoin(images_dir, FrameName(o))
              /\ Cardinality(DOMAIN writeCalls[c].cameras) = N
              /\ Cardinality(DOMAIN writeCalls[c].images) = N
              /\ DOMAIN writeCalls[c].points3D = {}
        /\ (Completed /\ N >= 1) => Len(writeCalls) = 1
        /\ pc = "raised" => writeCalls = <<>>

\* write_model was called in a run over two cameras
C4_Witness ==
    /\ Len(writeCalls) = 1
    /\ Cardinality(Selected) = 2
    /\ Completed

\* C5: the reported progress values increase strictly, there is one per
\* processed camera, all values reported before write_model are below 100,
\* and 100 is reported only after write_model.
C5_Progress ==
    /\ \A i, j \in 1..Len(progress) :
          i < j => FracLess(progress[i], progress[j])
    /\ writeCalls = <<>> =>
          \A i \in 1..Len(progress) : FracLess(progress[i], Frac(100, 1))
    /\ \A i \in 1..Len(progress) :
          FracEq(progress[i], Frac(100, 1)) => Len(writeCalls) = 1
    /\ pc \in {"build", "write"} => Len(progress) = Len(saved)
    /\ pc \in {"render", "save", "yield"} => Len(progress) = idx
    /\ (Completed /\ Selected # {}) =>
          /\ Len(progress) = Cardinality(Selected) + 1
          /\ FracEq(progress[Len(progress)], Frac(100, 1))

\* a run over two cameras reported three values
C5_Witness ==
    /\ Completed
    /\ Len(progress) = 3

\* C6: a returned operator reports success only if write_model was called,
\* and reports a warning, with nothing written, when the directory is not a
\* directory or no camera is selected.
C6_Original ==
    pc = "returned" =>
       /\ "FINISHED" \in result => Len(writeCalls) >= 1
       /\ (Directory \notin dirs \/ Selected = {}) =>
             /\ "WARNING" \in result
             /\ files = {}
             /\ writeCalls = <<>>

\* cameras "A" and "B" in "colmap_set1", 800x600, 35 mm, sensor 36x24 mm
ScenarioA ==
    /\ Len(objects) = 2
    /\ { objects[o].name_full : o \in 1..Len(objects) } = { <<65>>, <<66>> }
    /\ \A o \in 1..Len(objects) :
          /\ objects[o].type = "CAMERA"
          /\ objects[o].users_collection = <<ColmapSet1>>
          /\ objects[o].data.lens = 35
          /\ objects[o].data.sensor_width = 36
          /\ objects[o].data.sensor_height = 24
    /\ resolution = <<800, 600>>

\* f rounds to 777.78
Near777_78(f) ==
    /\ ~ FracLess(f, Frac(155555, 200))
    /\ FracLess(f, Frac(155557, 200))

\* C7 as stated: in scenario A both cameras get fx = fy ~ 777.78,
\* cx = 400, cy = 300 and zero distortion.
C7_Original ==
    ScenarioA =>
       \A k \in DOMAIN cameras :
          LET params == cameras[k].params
          IN  /\ Near777_78(params[1])
              /\ FracEq(params[2], params[1])
              /\ FracEq(params[3], Frac(400, 1))
              /\ FracEq(params[4], Frac(300, 1))
              /\ \A i \in 5..8 : FracEq(params[i], Frac(0, 1))

\* C7 amended: in scenario A both cameras get fx ~ 777.78, fy = 875,
\* cx = 400, cy = 300 and zero distortion.
C7_Amended ==
    ScenarioA =>
       \A k \in DOMAIN cameras :
          LET params == cameras[k].params
          IN  /\ Len(params) = 8
              /\ Near777_78(params[1])
              /\ FracEq(params[2], Frac(875, 1))
              /\ FracEq(params[3], Frac(400, 1))
              /\ FracEq(params[4], Frac(300, 1))
              /\ \A i \in 5..8 : FracEq(params[i], Frac(0, 1))

\* both records of scenario A were built and handed to write_model
C7_Witness ==
    /\ ScenarioA
    /\ DOMAIN cameras = {1, 2}
    /\ Len(writeCalls) = 1

\* C8: no object has more than one Image record or render, only selected
\* objects have any, and after a completed run every selected object has
\* exactly one Camera record, Image record, render and saved frame.
C8_SelectedExactlyOnce ==
    /\ \A o \in 1..Len(objects) :
          LET nImg == Cardinality({ k \in DOMAIN images :
                                      images[k].name = FrameName(o) })
              nRen == Cardinality({ k \in 1..Len(renders) : renders[k] = o })
              nSav == Cardinality({ k \in 1..Len(saved) :
                         saved[k] = PathJoin(images_dir, FrameName(o)) })
          IN  /\ nImg <= 1 /\ nRen <= 1 /\ nSav <= 1
              /\ o \notin Selected => nImg = 0 /\ nRen = 0 /\ nSav = 0
              /\ (Completed /\ o \in Selected) =>
                    nImg = 1 /\ nRen = 1 /\ nSav = 1
    /\ Cardinality(DOMAIN cameras) = Cardinality(DOMAIN images)
    /\ Cardinality(DOMAIN cameras) <= Cardinality(Selected)
    /\ Completed => Cardinality(DOMAIN cameras) = Cardinality(Selected)

\* a completed run over a camera in two "colmap_" collections and a camera
\* in none
C8_Witness ==
    /\ Completed
    /\ \E o \in Selected :
          Cardinality({ i \in 1..Len(objects[o].users_collection) :
             startswith(objects[o].users_collection[i], COLMAP_PREFIX) }) = 2
    /\ \E o \in 1..Len(objects) :
          objects[o].type = "CAMERA" /\ o \notin Selected

\* the Image mapping m refers one to one to the Camera mapping c
ImagesConsistent(m, c) ==
    /\ \A k \in DOMAIN m :
          /\ m[k].id = k
          /\ m[k].camera_id = k
          /\ m[k].camera_id \in DOMAIN c
          /\ c[m[k].camera_id].id = m[k].camera_id
          /\ m[k].xys = <<>>
          /\ m[k].point3D_ids = <<>>
          /\ Len(m[k].xys) = Len(m[k].point3D_ids)
    /\ \A j, k \in DOMAIN m : m[j].camera_id = m[k].camera_id => j = k

\* C9: in the accumulated mappings, and in those handed to write_model,
\* every Image has id = key = camera_id, its camera exists, no two Images
\* share a camera, and xys and point3D_ids are empty.
C9_ImageCameraOneToOne ==
    /\ ImagesConsistent(images, cameras)
    /\ \A c \in 1..Len(writeCalls) :
          ImagesConsistent(writeCalls[c].images, writeCalls[c].cameras)

\* write_model was called with two Image records
C9_Witness ==
    /\ Len(writeCalls) = 1
    /\ DOMAIN writeCalls[1].images = {1, 2}

\* C10: the k-th render has the camera of id k active, there is one render
\* per selected camera, and the k-th frame is saved to
\* <output_dir>/images/<name of Image k>.
C10_Original ==
    /\ Len(renders) <= Cardinality(Selected)
    /\ \A k \in 1..Len(renders) :
          renders[k] \in Selected /\ Rank(renders[k]) = k
    /\ \A k \in 1..Len(saved) :
          /\ k \in DOMAIN images
          /\ PathStr(saved[k]) =
                PathStr(output_dir) \o SLASH \o IMAGES \o SLASH
                   \o images[k].name
    /\ Completed => Len(renders) = Cardinality(Selected)

====
